---- MODULE Spec2Model ----
(***************************************************************************)
(* The Electron main process of the desktop shell (baklava/src/electron.ts) *)
(* as a state machine: the single-instance gate, the splash-to-main        *)
(* sequencing with its two timers, the IPC handlers of the main window and *)
(* the link handler attached to 'new-window' and 'will-navigate'.          *)
(***************************************************************************)
EXTENDS Integers, Sequences, FiniteSets, TLC

(* How many OS processes of the application are launched. *)
NumProcs == 2

Procs == 1..NumProcs

VARIABLES
    platform,            \* isMac / isLinux / isWin of ./constants
    hotReload,           \* process.env.hotReload is set
    prod,                \* __prod__ = app.isPackaged
    pc,                  \* per process: "off", "running", "quitting", "exited"
    instanceLock,        \* per process: result of app.requestSingleInstanceLock()
    relaunched,          \* per process: app.relaunch() was called
    appOn,               \* per process: app events with a registered handler
    boot,                \* per process: "init", "localizing", "started"
    secondPending,       \* per process: 'second-instance' events not yet dispatched
    splash,              \* per process: "undefined", "open", "destroyed"
    splashSent,          \* per process: messages sent to the splash window, in order
    mainWindow,          \* per process: "undefined", "null", "open", "closing", "destroyed"
    created,             \* per process: number of createMainWindow calls
    trays,               \* per process: number of Tray objects created
    ipcOn,               \* per process: listeners registered per ipcMain channel
    win,                 \* per process: visible / minimized / maximized / fullScreen
    shortcuts,           \* per process: global shortcuts are registered
    overlay,             \* per process: bWindows.overlay, "undefined", "open", "destroyed"
    shouldShowWindow,    \* per process: the ready flag
    windowShowInterval,  \* per process: "unset", "active", "cleared"
    showTimer,           \* per process: the 800 ms timeout, "unset", "pending", "fired"
    timersStarted,       \* per process: number of 800 ms timeouts started
    allClosed,           \* per process: 'window-all-closed' emitted, not yet dispatched
    mic,                 \* the 'request-mic' exchange in flight or last completed
    obs                  \* what the most recent handler run did

envVars == <<platform, hotReload, prod>>
procVars == <<pc, instanceLock, relaunched, appOn, boot, secondPending>>
winVars ==
    <<splash, splashSent, mainWindow, created, trays, ipcOn, win, shortcuts, overlay>>
timerVars == <<shouldShowWindow, windowShowInterval, showTimer, timersStarted, allClosed>>
vars == <<envVars, procVars, winVars, timerVars, mic, obs>>

isMac == platform = "mac"
isLinux == platform = "linux"
isWin == platform = "win"

(***************************************************************************)
(* URLs and the allow-list.  new URL(url) splits a URL into hostname and   *)
(* pathname; a URL is modelled by these two parts.                         *)
(***************************************************************************)
ALLOWED_HOSTS ==
    << "host0", "host1", "host2", "host3", "host4",
       "host5", "host6", "host7", "host8" >>

(* ALLOWED_HOSTS[i] of the zero-based source array. *)
AllowedHostAt(i) == ALLOWED_HOSTS[i + 1]

Includes(seq, x) == \E i \in 1..Len(seq) : seq[i] = x

Hosts == { ALLOWED_HOSTS[i] : i \in 1..Len(ALLOWED_HOSTS) } \cup { "elsewhere" }

Paths3 == { "/login", "/session", "/sessions/two-factor",
            "/sessions/two-factor/webauthn" }
Paths8 == { "/account/login_verification" }
Paths == Paths3 \cup Paths8 \cup { "/", "/login/" }

URLs == [ hostname : Hosts, pathname : Paths ]
NoUrl == [ hostname |-> "", pathname |-> "" ]

(***************************************************************************)
(* handleLinks.  A run of the handler is summarised by the number of       *)
(* event.preventDefault() calls it makes and the URLs it hands to          *)
(* shell.openExternal, in order.                                           *)
(***************************************************************************)
External(url) == [ prevented |-> 1, opened |-> << url >> ]
InApp == [ prevented |-> 0, opened |-> << >> ]

(* Mutant: the '/session' comparison is missing from the first list. *)
PathRestrictedNoSession(urlHost, pathname) ==
    \/ /\ urlHost = AllowedHostAt(3)
       /\ pathname # "/login"
       /\ pathname # "/sessions/two-factor"
       /\ pathname # "/sessions/two-factor/webauthn"
    \/ /\ urlHost = AllowedHostAt(8)
       /\ pathname # "/account/login_verification"

(* Mutant: the comparisons are === instead of !==. *)
PathRestrictedInverted(urlHost, pathname) ==
    \/ /\ urlHost = AllowedHostAt(3)
       /\ pathname \in { "/login", "/session", "/sessions/two-factor",
                         "/sessions/two-factor/webauthn" }
    \/ /\ urlHost = AllowedHostAt(8)
       /\ pathname = "/account/login_verification"

(* The condition of the inner if: the two hosts that carry a path list. *)
PathRestricted(urlHost, pathname) ==
    \/ /\ urlHost = AllowedHostAt(3)
       /\ pathname # "/login"
       /\ pathname # "/session"
       /\ pathname # "/sessions/two-factor"
       /\ pathname # "/sessions/two-factor/webauthn"
    \/ /\ urlHost = AllowedHostAt(8)
       /\ pathname # "/account/login_verification"

(* Mutant: a non-listed host is opened externally without preventDefault(). *)
handleLinksNoPrevent(url) ==
    LET urlHost == url.hostname IN
    IF ~Includes(ALLOWED_HOSTS, urlHost)
    THEN [ prevented |-> 0, opened |-> << url >> ]
    ELSE IF PathRestricted(urlHost, url.pathname) THEN External(url) ELSE InApp

(* Mutant: the inner branch opens externally without preventDefault(). *)
handleLinksInnerNoPrevent(url) ==
    LET urlHost == url.hostname IN
    IF ~Includes(ALLOWED_HOSTS, urlHost)
    THEN External(url)
    ELSE IF PathRestricted(urlHost, url.pathname)
         THEN [ prevented |-> 0, opened |-> << url >> ]
         ELSE InApp

(* Mutant: the second path list is attached to ALLOWED_HOSTS[7]. *)
handleLinksWrongIndex(url) ==
    LET urlHost == url.hostname IN
    IF ~Includes(ALLOWED_HOSTS, urlHost)
    THEN External(url)
    ELSE IF \/ PathRestricted(urlHost, url.pathname)
            \/ urlHost = AllowedHostAt(7) /\ url.pathname # "/account/login_verification"
         THEN External(url)
         ELSE InApp

handleLinks(url) ==
    LET urlHost == url.hostname IN
    IF ~Includes(ALLOWED_HOSTS, urlHost)
    THEN External(url)
    ELSE IF PathRestricted(urlHost, url.pathname) THEN External(url) ELSE InApp

(***************************************************************************)
(* BrowserWindow methods used by the handlers, on the window's state.      *)
(* maximize() also shows a window that is not displayed (Electron:         *)
(* "This will also show (but not focus) the window if it isn't being       *)
(* displayed already").                                                    *)
(***************************************************************************)
NewWindow ==
    [ visible |-> FALSE, minimized |-> FALSE, maximized |-> FALSE,
      fullScreen |-> FALSE, maximizable |-> TRUE, minimizable |-> TRUE,
      fullScreenable |-> TRUE ]
show(w) == [ w EXCEPT !.visible = TRUE ]
maximize(w) == [ w EXCEPT !.maximized = TRUE, !.visible = TRUE ]
unmaximize(w) == [ w EXCEPT !.maximized = FALSE ]
minimize(w) == [ w EXCEPT !.minimized = TRUE ]
restore(w) == [ w EXCEPT !.minimized = FALSE ]
setFullScreen(w, flag) == [ w EXCEPT !.fullScreen = flag ]

(* A window handle on which a method call does not throw. *)
Alive(h) == h \in { "open", "closing" }
(* JavaScript truthiness of the handle: undefined and null are falsy. *)
Truthy(h) == h \notin { "undefined", "null" }

Channels == { "request-mic", "@dogehouse/loaded", "@app/quit", "@app/maximize",
              "@app/minimize", "@app/hostPlatform" }

(* The 'request-mic' exchange in flight: who asked, and how many *)
(* askForMediaAccess calls are awaiting the platform's answer.   *)
NoMic == [ state |-> "idle", p |-> 0, asked |-> 0 ]

(* What the handler run that just ended did: the main-window methods it *)
(* called and whether one of them threw; for a link event its name, its  *)
(* URL, the preventDefault() calls and the URLs opened externally; for a *)
(* completed 'request-mic' the askForMediaAccess calls made, the         *)
(* platform's answer and the values assigned to event.returnValue.       *)
Obs(calls, threw) ==
    [ event |-> "", url |-> NoUrl, prevented |-> 0, opened |-> << >>,
      calls |-> calls, threw |-> threw,
      asked |-> 0, result |-> FALSE, replies |-> << >> ]
NoObs == Obs(<< >>, FALSE)

Init ==
    /\ platform \in { "mac", "linux", "win" }
    /\ hotReload \in BOOLEAN
    /\ prod \in BOOLEAN
    /\ pc = [ p \in Procs |-> "off" ]
    /\ instanceLock = [ p \in Procs |-> FALSE ]
    /\ relaunched = [ p \in Procs |-> FALSE ]
    /\ appOn = [ p \in Procs |-> { } ]
    /\ boot = [ p \in Procs |-> "init" ]
    /\ secondPending = [ p \in Procs |-> 0 ]
    /\ splash = [ p \in Procs |-> "undefined" ]
    /\ splashSent = [ p \in Procs |-> << >> ]
    /\ mainWindow = [ p \in Procs |-> "undefined" ]
    /\ created = [ p \in Procs |-> 0 ]
    /\ trays = [ p \in Procs |-> 0 ]
    /\ ipcOn = [ p \in Procs |-> [ ch \in Channels |-> 0 ] ]
    /\ win = [ p \in Procs |-> NewWindow ]
    /\ shortcuts = [ p \in Procs |-> FALSE ]
    /\ overlay = [ p \in Procs |-> "undefined" ]
    /\ shouldShowWindow = [ p \in Procs |-> FALSE ]
    /\ windowShowInterval = [ p \in Procs |-> "unset" ]
    /\ showTimer = [ p \in Procs |-> "unset" ]
    /\ timersStarted = [ p \in Procs |-> 0 ]
    /\ allClosed = [ p \in Procs |-> FALSE ]
    /\ mic = NoMic
    /\ obs = NoObs

Set(f, p, v) == [ f EXCEPT ![p] = v ]

(***************************************************************************)
(* The single-instance gate: the module's top-level code.                  *)
(***************************************************************************)
(* The lock is held by a live process that acquired it. *)
Holds(q) == instanceLock[q] /\ pc[q] \in { "running", "quitting" }
requestSingleInstanceLock == ~(\E q \in Procs : Holds(q))

(* Mutant: app.relaunch() without the hotReload test. *)
GateRelaunchAlways(lock) == ~lock

(* app.relaunch() is called in the branch that failed to get the lock. *)
GateRelaunch(lock) == ~lock /\ hotReload
(* exitApp() in that branch: the process is on its way out. *)
GatePc(lock) == IF lock THEN "running" ELSE "quitting"
(* The app events that get a handler: 'ready' and 'second-instance' only *)
(* in the else branch, the other two unconditionally.                     *)
GateHandlers(lock) ==
    (IF lock THEN { "ready", "second-instance" } ELSE { })
        \cup { "window-all-closed", "activate" }

(* Processes are numbered in the order in which they are launched. *)
Launch(p) ==
    /\ pc[p] = "off"
    /\ \A q \in Procs : q < p => pc[q] # "off"
    /\ LET lock == requestSingleInstanceLock IN
        /\ instanceLock' = Set(instanceLock, p, lock)
        /\ relaunched' = Set(relaunched, p, GateRelaunch(lock))
        /\ pc' = Set(pc, p, GatePc(lock))
        /\ appOn' = Set(appOn, p, GateHandlers(lock))
        /\ secondPending' =
              [ q \in Procs |->
                  IF ~lock /\ Holds(q) THEN secondPending[q] + 1
                  ELSE secondPending[q] ]
    /\ obs' = Obs(<< >>, FALSE)
    /\ UNCHANGED << envVars, boot, winVars, timerVars, mic >>

(* app.quit() completes: the process is gone, with its windows, timers, *)
(* listeners and lock.                                                   *)
Quit(p) ==
    /\ pc[p] = "quitting"
    /\ pc' = Set(pc, p, "exited")
    /\ appOn' = Set(appOn, p, { })
    /\ boot' = Set(boot, p, "init")
    /\ secondPending' = Set(secondPending, p, 0)
    /\ splash' = Set(splash, p, "undefined")
    /\ splashSent' = Set(splashSent, p, << >>)
    /\ mainWindow' = Set(mainWindow, p, "undefined")
    /\ created' = Set(created, p, 0)
    /\ trays' = Set(trays, p, 0)
    /\ ipcOn' = Set(ipcOn, p, [ ch \in Channels |-> 0 ])
    /\ win' = Set(win, p, NewWindow)
    /\ shortcuts' = Set(shortcuts, p, FALSE)
    /\ overlay' = Set(overlay, p, "undefined")
    /\ shouldShowWindow' = Set(shouldShowWindow, p, FALSE)
    /\ windowShowInterval' = Set(windowShowInterval, p, "unset")
    /\ showTimer' = Set(showTimer, p, "unset")
    /\ timersStarted' = Set(timersStarted, p, 0)
    /\ allClosed' = Set(allClosed, p, FALSE)
    /\ mic' = IF mic.p = p THEN NoMic ELSE mic
    /\ obs' = NoObs
    /\ UNCHANGED << envVars, instanceLock, relaunched >>

(***************************************************************************)
(* 'ready': localize().then(createSplashWindow; skipUpdateCheck(splash)).  *)
(***************************************************************************)
AppReady(p) ==
    /\ pc[p] = "running"
    /\ "ready" \in appOn[p]
    /\ boot[p] = "init"
    /\ boot' = Set(boot, p, "localizing")
    /\ obs' = Obs(<< >>, FALSE)
    /\ UNCHANGED << envVars, pc, instanceLock, relaunched, appOn, secondPending,
                    winVars, timerVars, mic >>

(* createMainWindow: a new window (show: false), a new tray, bWindows    *)
(* reset, the IPC listeners added, the global keybinds registered.      *)
CreateMainWindow(p) ==
    /\ mainWindow' = Set(mainWindow, p, "open")
    /\ created' = Set(created, p, created[p] + 1)
    /\ trays' = Set(trays, p, trays[p] + 1)
    /\ win' = Set(win, p, NewWindow)
    /\ overlay' = Set(overlay, p, "undefined")
    /\ ipcOn' = Set(ipcOn, p, [ ch \in Channels |-> ipcOn[p][ch] + 1 ])
    /\ shortcuts' = Set(shortcuts, p, TRUE)

(* Mutant: 'skipCheck' is sent on every platform and build. *)
SkipMessagesAlways == << "notfound", "skipCheck" >>

(* The messages skipUpdateCheck sends to the splash window before polling. *)
SkipMessages ==
    << "notfound" >> \o (IF isLinux \/ ~prod THEN << "skipCheck" >> ELSE << >>)

LocalizeDone(p) ==
    /\ pc[p] = "running"
    /\ boot[p] = "localizing"
    /\ boot' = Set(boot, p, "started")
    /\ splash' = Set(splash, p, "open")
    /\ CreateMainWindow(p)
    /\ splashSent' = Set(splashSent, p, splashSent[p] \o SkipMessages)
    /\ windowShowInterval' = Set(windowShowInterval, p, "active")
    /\ obs' = Obs(<< >>, FALSE)
    /\ UNCHANGED << envVars, pc, instanceLock, relaunched, appOn, secondPending,
                    shouldShowWindow, showTimer, timersStarted, allClosed, mic >>

(* 'did-finish-load' of the splash page: the locale texts are pushed to it. *)
SplashLoaded(p) ==
    /\ pc[p] = "running"
    /\ splash[p] = "open"
    /\ ~Includes(splashSent[p], "@locale/text")
    /\ splashSent' = Set(splashSent, p, Append(splashSent[p], "@locale/text"))
    /\ obs' = Obs(<< >>, FALSE)
    /\ UNCHANGED << envVars, procVars, splash, mainWindow, created, trays, ipcOn,
                    win, shortcuts, overlay, timerVars, mic >>

(* mainWindow.once("ready-to-show"): the ready flag is raised. *)
ReadyToShow(p) ==
    /\ pc[p] = "running"
    /\ mainWindow[p] = "open"
    /\ ~shouldShowWindow[p]
    /\ shouldShowWindow' = Set(shouldShowWindow, p, TRUE)
    /\ obs' = Obs(<< >>, FALSE)
    /\ UNCHANGED << envVars, procVars, winVars, windowShowInterval, showTimer,
                    timersStarted, allClosed, mic >>

(***************************************************************************)
(* The two timers of skipUpdateCheck.                                      *)
(***************************************************************************)
(* Mutant: the interval is not cleared. *)
AfterLaunchStillActive == "active"

(* clearInterval(windowShowInterval) in the tick that sees the flag. *)
AfterLaunch == "cleared"

PollTick(p) ==
    /\ pc[p] = "running"
    /\ windowShowInterval[p] = "active"
    /\ IF shouldShowWindow[p]
       THEN /\ splashSent' = Set(splashSent, p, Append(splashSent[p], "launch"))
            /\ windowShowInterval' = Set(windowShowInterval, p, AfterLaunch)
            /\ showTimer' = Set(showTimer, p, "pending")
            /\ timersStarted' = Set(timersStarted, p, timersStarted[p] + 1)
       ELSE UNCHANGED << splashSent, windowShowInterval, showTimer, timersStarted >>
    /\ obs' = Obs(<< >>, FALSE)
    /\ UNCHANGED << envVars, procVars, splash, mainWindow, created, trays, ipcOn, win,
                    shortcuts, overlay, shouldShowWindow, allClosed, mic >>

(* The 800 ms callback: splash.destroy(); mainWindow.show(). *)
ShowTimeout(p) ==
    /\ pc[p] = "running"
    /\ showTimer[p] = "pending"
    /\ showTimer' = Set(showTimer, p, "fired")
    /\ splash' = Set(splash, p, "destroyed")
    /\ win' = Set(win, p, IF Alive(mainWindow[p]) THEN show(win[p]) ELSE win[p])
    /\ obs' = Obs(<< "show" >>, ~Alive(mainWindow[p]))
    /\ allClosed' = Set(allClosed, p, ~Alive(mainWindow[p]) /\ overlay[p] # "open")
    /\ UNCHANGED << envVars, procVars, splashSent, mainWindow, created, trays, ipcOn,
                    shortcuts, overlay, shouldShowWindow, windowShowInterval,
                    timersStarted, mic >>

(***************************************************************************)
(* Closing the main window.                                                *)
(***************************************************************************)
(* The user closes the displayed main window. *)
UserClose(p) ==
    /\ pc[p] = "running"
    /\ mainWindow[p] = "open"
    /\ win[p].visible
    /\ mainWindow' = Set(mainWindow, p, "closing")
    /\ obs' = Obs(<< >>, FALSE)
    /\ UNCHANGED << envVars, procVars, splash, splashSent, created, trays, ipcOn, win,
                    shortcuts, overlay, timerVars, mic >>

(* Mutant: the 'closed' handler leaves the overlay window alone. *)
MainClosedKeepsOverlay(p) ==
    /\ pc[p] = "running"
    /\ mainWindow[p] = "closing"
    /\ shortcuts' = Set(shortcuts, p, FALSE)
    /\ mainWindow' = Set(mainWindow, p, "destroyed")
    /\ allClosed' = Set(allClosed, p, splash[p] # "open" /\ overlay[p] # "open")
    /\ obs' = Obs(<< "destroy" >>, FALSE)
    /\ UNCHANGED << envVars, procVars, splash, splashSent, created, trays, ipcOn, win,
                    overlay, shouldShowWindow, windowShowInterval, showTimer,
                    timersStarted, mic >>

(* Mutant: the 'closed' handler also resets the handle to null. *)
MainClosedResetsHandle(p) ==
    /\ pc[p] = "running"
    /\ mainWindow[p] = "closing"
    /\ shortcuts' = Set(shortcuts, p, FALSE)
    /\ overlay' = Set(overlay, p, IF overlay[p] = "open" THEN "destroyed" ELSE overlay[p])
    /\ mainWindow' = Set(mainWindow, p, "null")
    /\ allClosed' = Set(allClosed, p, splash[p] # "open")
    /\ obs' = Obs(<< "destroy" >>, FALSE)
    /\ UNCHANGED << envVars, procVars, splash, splashSent, created, trays, ipcOn, win,
                    shouldShowWindow, windowShowInterval, showTimer, timersStarted,
                    mic >>

(* mainWindow.on("closed"): unregisterAll, destroy the overlay, destroy. *)
MainClosed(p) ==
    /\ pc[p] = "running"
    /\ mainWindow[p] = "closing"
    /\ shortcuts' = Set(shortcuts, p, FALSE)
    /\ overlay' = Set(overlay, p, IF overlay[p] = "open" THEN "destroyed" ELSE overlay[p])
    /\ mainWindow' = Set(mainWindow, p, "destroyed")
    /\ allClosed' = Set(allClosed, p, splash[p] # "open")
    /\ obs' = Obs(<< "destroy" >>, FALSE)
    /\ UNCHANGED << envVars, procVars, splash, splashSent, created, trays, ipcOn, win,
                    shouldShowWindow, windowShowInterval, showTimer, timersStarted,
                    mic >>

(* Another module of the application sets bWindows.overlay. *)
OverlayCreate(p) ==
    /\ pc[p] = "running"
    /\ mainWindow[p] = "open"
    /\ shortcuts[p]
    /\ overlay[p] = "undefined"
    /\ overlay' = Set(overlay, p, "open")
    /\ obs' = Obs(<< >>, FALSE)
    /\ UNCHANGED << envVars, procVars, splash, splashSent, mainWindow, created, trays,
                    ipcOn, win, shortcuts, timerVars, mic >>

(* app.on("window-all-closed"): exitApp(). *)
WindowAllClosed(p) ==
    /\ pc[p] = "running"
    /\ allClosed[p]
    /\ "window-all-closed" \in appOn[p]
    /\ allClosed' = Set(allClosed, p, FALSE)
    /\ pc' = Set(pc, p, "quitting")
    /\ obs' = Obs(<< >>, FALSE)
    /\ UNCHANGED << envVars, instanceLock, relaunched, appOn, boot, secondPending,
                    winVars, shouldShowWindow, windowShowInterval, showTimer,
                    timersStarted, mic >>

(***************************************************************************)
(* app.on("second-instance") and app.on("activate").                       *)
(***************************************************************************)
Outcome(h, w, calls, threw) == [ h |-> h, w |-> w, calls |-> calls, threw |-> threw ]

(* Mutant: no return after close(), so the handler goes on to focus. *)
secondInstanceNoReturn(h, w) ==
    IF ~Truthy(h) THEN Outcome(h, w, << >>, FALSE)
    ELSE IF ~Alive(h)
    THEN Outcome(h, w, << IF hotReload THEN "close" ELSE "isMinimized" >>, TRUE)
    ELSE Outcome(IF hotReload THEN "closing" ELSE h,
                 IF w.minimized THEN restore(w) ELSE w,
                 (IF hotReload THEN << "close" >> ELSE << >>)
                     \o << "isMinimized" >>
                     \o (IF w.minimized THEN << "restore" >> ELSE << >>)
                     \o << "focus" >>,
                 FALSE)

(* The handler on handle h and window state w.  A method called on a *)
(* destroyed window throws, which ends the handler.                  *)
secondInstance(h, w) ==
    IF ~Truthy(h) THEN Outcome(h, w, << >>, FALSE)
    ELSE IF hotReload
    THEN IF Alive(h) THEN Outcome("closing", w, << "close" >>, FALSE)
         ELSE Outcome(h, w, << "close" >>, TRUE)
    ELSE IF ~Alive(h) THEN Outcome(h, w, << "isMinimized" >>, TRUE)
    ELSE IF w.minimized
    THEN Outcome(h, restore(w), << "isMinimized", "restore", "focus" >>, FALSE)
    ELSE Outcome(h, w, << "isMinimized", "focus" >>, FALSE)

SecondInstance(p) ==
    /\ pc[p] = "running"
    /\ secondPending[p] > 0
    /\ "second-instance" \in appOn[p]
    /\ secondPending' = Set(secondPending, p, secondPending[p] - 1)
    /\ LET r == secondInstance(mainWindow[p], win[p]) IN
        /\ mainWindow' = Set(mainWindow, p, r.h)
        /\ win' = Set(win, p, r.w)
        /\ obs' = Obs(r.calls, r.threw)
    /\ UNCHANGED << envVars, pc, instanceLock, relaunched, appOn, boot, splash,
                    splashSent, created, trays, ipcOn, shortcuts, overlay, timerVars, mic >>

(* Mutant: == null, which undefined satisfies too. *)
ActivateGuardLoose(h) == ~Truthy(h)

(* The guard of the 'activate' handler. *)
ActivateGuard(h) == h = "null"

Activate(p) ==
    /\ isMac
    /\ pc[p] \in { "running", "quitting" }
    /\ "activate" \in appOn[p]
    /\ IF ActivateGuard(mainWindow[p])
       THEN CreateMainWindow(p)
       ELSE UNCHANGED << mainWindow, created, trays, win, overlay, ipcOn, shortcuts >>
    /\ obs' = Obs(<< >>, FALSE)
    /\ UNCHANGED << envVars, procVars, splash, splashSent, timerVars, mic >>

(***************************************************************************)
(* The ipcMain handlers registered by createMainWindow.  The renderer of   *)
(* the main window sends the messages, so the window is alive.             *)
(***************************************************************************)
WindowChannels == Channels \ { "request-mic" }

(* Mutant: '@app/maximize' always maximizes or enters full screen. *)
ipcHandlerNoToggle(ch, h, w) ==
    CASE ch = "@dogehouse/loaded" ->
            IF isMac THEN Outcome(h, maximize(w), << "maximize" >>, FALSE)
            ELSE Outcome(h, w, << >>, FALSE)
      [] ch = "@app/quit" -> Outcome("closing", w, << "close" >>, FALSE)
      [] ch = "@app/maximize" ->
            IF isMac
            THEN IF w.fullScreenable
                 THEN Outcome(h, setFullScreen(w, TRUE),
                              << "isFullScreenable", "setFullScreen" >>, FALSE)
                 ELSE Outcome(h, w, << "isFullScreenable" >>, FALSE)
            ELSE IF w.maximizable
                 THEN Outcome(h, maximize(w), << "maximize" >>, FALSE)
                 ELSE Outcome(h, w, << >>, FALSE)
      [] ch = "@app/minimize" ->
            IF w.minimizable THEN Outcome(h, minimize(w), << "minimize" >>, FALSE)
            ELSE Outcome(h, w, << >>, FALSE)
      [] ch = "@app/hostPlatform" -> Outcome(h, w, << >>, FALSE)

ipcHandler(ch, h, w) ==
    CASE ch = "@dogehouse/loaded" ->
            IF isMac THEN Outcome(h, maximize(w), << "maximize" >>, FALSE)
            ELSE Outcome(h, w, << >>, FALSE)
      [] ch = "@app/quit" -> Outcome("closing", w, << "close" >>, FALSE)
      [] ch = "@app/maximize" ->
            IF isMac
            THEN IF w.fullScreenable
                 THEN Outcome(h, setFullScreen(w, ~w.fullScreen),
                              << "isFullScreenable", "isFullScreen", "setFullScreen" >>,
                              FALSE)
                 ELSE Outcome(h, w, << "isFullScreenable" >>, FALSE)
            ELSE IF w.maximizable
                 THEN IF w.maximized
                      THEN Outcome(h, unmaximize(w), << "isMaximized", "unmaximize" >>, FALSE)
                      ELSE Outcome(h, maximize(w), << "isMaximized", "maximize" >>, FALSE)
                 ELSE Outcome(h, w, << >>, FALSE)
      [] ch = "@app/minimize" ->
            IF w.minimizable THEN Outcome(h, minimize(w), << "minimize" >>, FALSE)
            ELSE Outcome(h, w, << >>, FALSE)
      [] ch = "@app/hostPlatform" -> Outcome(h, w, << >>, FALSE)

Ipc(p, ch) ==
    /\ pc[p] = "running"
    /\ Alive(mainWindow[p])
    /\ ipcOn[p][ch] > 0
    /\ LET r == ipcHandler(ch, mainWindow[p], win[p]) IN
        /\ mainWindow' = Set(mainWindow, p, r.h)
        /\ win' = Set(win, p, r.w)
        /\ obs' = Obs(r.calls, r.threw)
    /\ UNCHANGED << envVars, procVars, splash, splashSent, created, trays, ipcOn,
                    shortcuts, overlay, timerVars, mic >>

(* 'request-mic': every registered listener awaits askForMediaAccess once *)
(* and assigns its result to event.returnValue.                           *)
(* Mutant: the reply does not carry the platform's answer. *)
MicReplyGranted(isAllowed) == TRUE

MicReply(isAllowed) == isAllowed

MicRequest(p) ==
    /\ pc[p] = "running"
    /\ Alive(mainWindow[p])
    /\ ipcOn[p]["request-mic"] > 0
    /\ mic.state # "pending"
    /\ mic' = [ state |-> "pending", p |-> p, asked |-> ipcOn[p]["request-mic"] ]
    /\ obs' = Obs(<< >>, FALSE)
    /\ UNCHANGED << envVars, procVars, winVars, timerVars >>

(* The platform answers the permission request with isAllowed. *)
MicResolve(p, isAllowed) ==
    /\ pc[p] = "running"
    /\ mic.state = "pending"
    /\ mic.p = p
    /\ mic' = NoMic
    /\ obs' = [ NoObs EXCEPT !.asked = mic.asked, !.result = isAllowed,
                             !.replies = [ i \in 1..mic.asked |-> MicReply(isAllowed) ] ]
    /\ UNCHANGED << envVars, procVars, winVars, timerVars >>

(* 'new-window' and 'will-navigate' of the main window's webContents. *)
LinkEvents == { "new-window", "will-navigate" }

LinkEvent(p, kind, url) ==
    /\ pc[p] = "running"
    /\ Alive(mainWindow[p])
    /\ LET r == handleLinks(url) IN
        obs' = [ NoObs EXCEPT !.event = kind, !.url = url, !.prevented = r.prevented,
                               !.opened = r.opened ]
    /\ UNCHANGED << envVars, procVars, winVars, timerVars, mic >>

Next ==
    \/ \E p \in Procs : Launch(p)
    \/ \E p \in Procs : Quit(p)
    \/ \E p \in Procs : AppReady(p)
    \/ \E p \in Procs : LocalizeDone(p)
    \/ \E p \in Procs : ReadyToShow(p)
    \/ \E p \in Procs : PollTick(p)
    \/ \E p \in Procs : ShowTimeout(p)
    \/ \E p \in Procs : UserClose(p)
    \/ \E p \in Procs : MainClosed(p)
    \/ \E p \in Procs : OverlayCreate(p)
    \/ \E p \in Procs : WindowAllClosed(p)
    \/ \E p \in Procs : SecondInstance(p)
    \/ \E p \in Procs : Activate(p)
    \/ \E p \in Procs, ch \in WindowChannels : Ipc(p, ch)
    \/ \E p \in Procs : MicRequest(p)
    \/ \E p \in Procs, isAllowed \in BOOLEAN : MicResolve(p, isAllowed)

Spec == Init /\ [][Next]_vars

(* Timers that are armed fire, and events the runtime has queued ('closed' *)
(* after close(), 'window-all-closed' after the last window went) are      *)
(* delivered.  'ready-to-show', user input and IPC are not forced.         *)
Fairness ==
    \A p \in Procs :
        /\ WF_vars(PollTick(p))
        /\ WF_vars(ShowTimeout(p))
        /\ WF_vars(MainClosed(p))
        /\ WF_vars(WindowAllClosed(p))

FairSpec == Init /\ [][Next]_vars /\ Fairness

(* The splash sequence with the splash page's own 'did-finish-load', and *)
(* every way the main window is closed while the sequence runs.         *)
NextSplash ==
    \/ \E p \in Procs : Launch(p)
    \/ \E p \in Procs : Quit(p)
    \/ \E p \in Procs : AppReady(p)
    \/ \E p \in Procs : LocalizeDone(p)
    \/ \E p \in Procs : SplashLoaded(p)
    \/ \E p \in Procs : ReadyToShow(p)
    \/ \E p \in Procs : PollTick(p)
    \/ \E p \in Procs : ShowTimeout(p)
    \/ \E p \in Procs : UserClose(p)
    \/ \E p \in Procs : MainClosed(p)
    \/ \E p \in Procs : WindowAllClosed(p)
    \/ \E p \in Procs : SecondInstance(p)
    \/ \E p \in Procs, ch \in WindowChannels : Ipc(p, ch)

SpecSplash == Init /\ [][NextSplash]_vars

(* The link handler on every URL, once a main window exists. *)
NextLinks ==
    \/ \E p \in Procs : Launch(p)
    \/ \E p \in Procs : AppReady(p)
    \/ \E p \in Procs : LocalizeDone(p)
    \/ \E p \in Procs, kind \in LinkEvents, url \in URLs : LinkEvent(p, kind, url)

SpecLinks == Init /\ [][NextLinks]_vars

(***************************************************************************)
(* The link policy, checked under SpecLinks.                               *)
(***************************************************************************)
AllowedSet == { ALLOWED_HOSTS[i] : i \in DOMAIN ALLOWED_HOSTS }
LinkHandled == obs.event \in LinkEvents
WentExternal == obs.prevented = 1 /\ obs.opened = << obs.url >>
StayedInApp == obs.prevented = 0 /\ obs.opened = << >>

(* The path list the handler carries for a host. *)
ListedPaths(host) ==
    IF host = AllowedHostAt(3) THEN Paths3
    ELSE IF host = AllowedHostAt(8) THEN Paths8
    ELSE { }
HostsWithPaths == { AllowedHostAt(3), AllowedHostAt(8) }

(* C1: a 'new-window' or 'will-navigate' event whose URL has a hostname    *)
(* outside ALLOWED_HOSTS is prevented in-app and its URL, unchanged, is    *)
(* handed to shell.openExternal, whatever the path.                        *)
C1_NonListedHostOpensExternally ==
    LinkHandled /\ obs.url.hostname \notin AllowedSet => WentExternal

C1_Witness ==
    /\ obs.event = "will-navigate"
    /\ obs.url = [ hostname |-> "elsewhere", pathname |-> "/login" ]
    /\ WentExternal

(* C2: on ALLOWED_HOSTS[3] and ALLOWED_HOSTS[8] a path that exactly matches *)
(* one of the host's listed paths stays in-app (no preventDefault, nothing  *)
(* opened externally); every other path on that host is prevented in-app    *)
(* and opened externally.                                                   *)
C2_ListedPathsStayInApp ==
    LinkHandled /\ obs.url.hostname \in HostsWithPaths =>
        IF obs.url.pathname \in ListedPaths(obs.url.hostname)
        THEN StayedInApp
        ELSE WentExternal

C2_Witness ==
    /\ LinkHandled
    /\ obs.url = [ hostname |-> AllowedHostAt(3), pathname |-> "/session" ]
    /\ StayedInApp

(* C3 as stated: on the two hosts with a path list, a listed path triggers *)
(* external-open and any other path does not.                              *)
C3_ListedPathsOpenExternally ==
    LinkHandled /\ obs.url.hostname \in HostsWithPaths =>
        (obs.url.pathname \in ListedPaths(obs.url.hostname) <=> obs.opened # << >>)

(* C3, amended: on the two hosts with a path list, external-open is        *)
(* triggered exactly for the paths that are not in the host's list.        *)
C3_UnlistedPathsOpenExternally ==
    LinkHandled /\ obs.url.hostname \in HostsWithPaths =>
        (obs.url.pathname \notin ListedPaths(obs.url.hostname) <=> obs.opened # << >>)

C3_Witness ==
    /\ LinkHandled
    /\ obs.url = [ hostname |-> AllowedHostAt(8), pathname |-> "/login" ]
    /\ obs.opened = << obs.url >>

(* C9: on every allow-listed host other than ALLOWED_HOSTS[3] and           *)
(* ALLOWED_HOSTS[8], an event to any path loads in-app: no preventDefault,  *)
(* no openExternal.                                                         *)
C9_OtherListedHostsStayInApp ==
    LinkHandled /\ obs.url.hostname \in AllowedSet \ HostsWithPaths => StayedInApp

C9_Witness ==
    /\ obs.event = "new-window"
    /\ obs.url = [ hostname |-> AllowedHostAt(7), pathname |-> "/login/" ]
    /\ StayedInApp

(***************************************************************************)
(* The single-instance gate, checked under Spec.                           *)
(***************************************************************************)
(* A launched process that did not get the lock. *)
LockRefused(p) == pc[p] # "off" /\ ~instanceLock[p]
HasMainWindow(p) == created[p] > 0

(* C4: a process launched while another holds the lock never creates a     *)
(* main window (it has no 'ready' handler and its 'activate' handler       *)
(* creates none), and the lock holder creates no further one: at any time  *)
(* at most one process has a main window, and it has exactly one.          *)
C4_NoSecondMainWindow ==
    /\ \A p \in Procs :
          LockRefused(p) =>
              /\ "ready" \notin appOn[p]
              /\ ~HasMainWindow(p)
              /\ mainWindow[p] = "undefined"
    /\ \A p \in Procs : created[p] <= 1
    /\ Cardinality({ p \in Procs : HasMainWindow(p) }) <= 1

C4_Witness ==
    \E p, q \in Procs :
        /\ LockRefused(q)
        /\ "activate" \in appOn[q]
        /\ isMac
        /\ HasMainWindow(p)
        /\ secondPending[p] = 0
        /\ obs.calls = << "isMinimized", "focus" >>

(* C6: a process that cannot get the lock exits (exitApp) without creating *)
(* a splash or main window, and has called app.relaunch() exactly when     *)
(* hotReload is set.                                                       *)
C6_RefusedProcessExits ==
    \A p \in Procs :
        LockRefused(p) =>
            /\ pc[p] \in { "quitting", "exited" }
            /\ splash[p] = "undefined"
            /\ mainWindow[p] = "undefined"
            /\ relaunched[p] <=> hotReload

C6_Witness ==
    \E p \in Procs : LockRefused(p) /\ pc[p] = "exited" /\ relaunched[p]

(* A step that dispatches a 'second-instance' event in process p. *)
SecondInstanceStep(p) ==
    /\ pc[p] = "running"
    /\ pc'[p] = "running"
    /\ secondPending'[p] = secondPending[p] - 1

C7_SecondInstanceStep(p) ==
    /\ Alive(mainWindow[p]) /\ hotReload =>
          /\ mainWindow'[p] = "closing"
          /\ win'[p] = win[p]
          /\ obs'.calls = << "close" >>
    /\ Alive(mainWindow[p]) /\ ~hotReload =>
          /\ mainWindow'[p] = mainWindow[p]
          /\ win'[p] = [ win[p] EXCEPT !.minimized = FALSE ]
          /\ obs'.calls =
                IF win[p].minimized
                THEN << "isMinimized", "restore", "focus" >>
                ELSE << "isMinimized", "focus" >>
    /\ mainWindow[p] = "undefined" =>
          /\ obs'.calls = << >>
          /\ UNCHANGED << envVars, pc, instanceLock, relaunched, appOn, boot,
                          winVars, timerVars, mic >>

(* C7: a 'second-instance' event in the lock holder.  With a live main     *)
(* window and hotReload, the window is closed and neither restored nor     *)
(* focused; with a live main window and no hotReload, it is restored if    *)
(* minimized, then focused, and not closed; before the main window is      *)
(* created the event changes nothing.                                      *)
C7_SecondInstance ==
    [][\A p \in Procs : SecondInstanceStep(p) => C7_SecondInstanceStep(p)]_vars

C7_Witness ==
    /\ obs.calls = << "isMinimized", "restore", "focus" >>
    /\ \E p \in Procs : mainWindow[p] = "open" /\ ~win[p].minimized

(***************************************************************************)
(* The splash-to-main transition, checked under Spec.                      *)
(***************************************************************************)
(* C5: the main window is displayed only after 'ready-to-show' raised the  *)
(* ready flag and the 800 ms callback started after the flag was observed  *)
(* has run; no IPC or 'second-instance' handler displays it earlier.       *)
C5_ShownOnlyAfterReadyAndDelay ==
    \A p \in Procs :
        win[p].visible => shouldShowWindow[p] /\ showTimer[p] = "fired"

Count(seq, x) == Cardinality({ i \in DOMAIN seq : seq[i] = x })

(* C10: the transition happens at most once.  'launch' is sent at most     *)
(* once, in the tick that clears the interval; that tick starts the only   *)
(* 800 ms timer; the callback that destroys the splash and shows the main  *)
(* window belongs to that one timer.                                       *)
C10_TransitionAtMostOnce ==
    \A p \in Procs :
        /\ Count(splashSent[p], "launch") <= 1
        /\ timersStarted[p] = Count(splashSent[p], "launch")
        /\ windowShowInterval[p] = "cleared" <=> timersStarted[p] = 1
        /\ showTimer[p] # "unset" <=> timersStarted[p] = 1
        /\ splash[p] = "destroyed" => showTimer[p] = "fired"

C10_Witness ==
    \E p \in Procs :
        /\ showTimer[p] = "fired"
        /\ splash[p] = "destroyed"
        /\ win[p].visible
        /\ windowShowInterval[p] = "cleared"
        /\ splashSent[p][Len(splashSent[p])] = "launch"

IsSequenceMessage(m) == m \in { "notfound", "skipCheck", "launch" }
SequenceSent(p) == SelectSeq(splashSent[p], IsSequenceMessage)
BeforeLaunch ==
    IF platform = "linux" \/ ~prod THEN << "notfound", "skipCheck" >>
                                   ELSE << "notfound" >>

C11_Order(p) ==
    /\ splashSent[p] # << >> => splashSent[p][1] = "notfound"
    /\ splash[p] # "undefined" => SequenceSent(p) \in
           { BeforeLaunch, BeforeLaunch \o << "launch" >> }
    /\ splash[p] = "undefined" => splashSent[p] = << >>
    /\ Includes(splashSent[p], "launch") => shouldShowWindow[p]
    /\ splash[p] = "destroyed" => Includes(splashSent[p], "launch")

C11_SilentAfterDestroy(p) ==
    splash[p] = "destroyed" /\ splash'[p] = "destroyed"
        => splashSent'[p] = splashSent[p]

(* C11: the messages to the splash window follow a fixed order.            *)
(* 'notfound' is the first message; 'skipCheck' follows iff the platform   *)
(* is Linux or the app is not packaged; 'launch' comes after both and only *)
(* once the ready flag is raised; the splash is destroyed only after       *)
(* 'launch'; and no step sends a message to a destroyed splash.            *)
C11_SplashMessageOrder ==
    /\ [](\A p \in Procs : C11_Order(p))
    /\ [][\A p \in Procs : C11_SilentAfterDestroy(p)]_vars

C11_Witness ==
    \E p \in Procs :
        /\ splash[p] = "destroyed"
        /\ prod /\ platform = "win"
        /\ splashSent[p] = << "notfound", "@locale/text", "launch" >>

(***************************************************************************)
(* Liveness of the splash-to-main transition, checked under FairSpec.      *)
(***************************************************************************)
ReadyAndOpen(p) ==
    pc[p] = "running" /\ shouldShowWindow[p] /\ mainWindow[p] = "open"
Transitioned(p) == splash[p] = "destroyed" /\ win[p].visible
ClosedOrKilled(p) == mainWindow[p] # "open" \/ pc[p] # "running"

(* Once the ready flag is raised, the transition completes unless the      *)
(* main window is closed or the process ends first.                        *)
C12_Liveness ==
    \A p \in Procs : ReadyAndOpen(p) ~> (Transitioned(p) \/ ClosedOrKilled(p))

(* The main window is displayed only once the splash is destroyed. *)
C12_SplashGoesFirst ==
    \A p \in Procs : win[p].visible => splash[p] = "destroyed"

(* C12: if the main window emits 'ready-to-show' and is not closed in the  *)
(* meantime, then eventually the splash window is destroyed and the main   *)
(* window is shown, and the splash is destroyed before the main window is  *)
(* shown.                                                                  *)
C12_ReadyLeadsToShown == C12_Liveness /\ []C12_SplashGoesFirst

(***************************************************************************)
(* The 'closed' handler of the main window, checked under Spec.            *)
(***************************************************************************)
ClosedFires(p) == mainWindow[p] = "closing" /\ mainWindow'[p] # "closing"

C13_ClosedStep(p) ==
    /\ mainWindow'[p] = "destroyed"
    /\ ~shortcuts'[p]
    /\ overlay'[p] = (IF overlay[p] = "open" THEN "destroyed" ELSE overlay[p])

C13_NothingOutlives(p) ==
    mainWindow[p] = "destroyed" => ~shortcuts[p] /\ overlay[p] # "open"

(* C13: when the main window's 'closed' event fires, the global shortcuts  *)
(* are unregistered, the overlay window is destroyed if there is one, and  *)
(* the main window is destroyed; so in every state no overlay window and   *)
(* no registered shortcut outlives the main window.                        *)
C13_ClosedCleansUp ==
    /\ [][\A p \in Procs : ClosedFires(p) /\ pc'[p] = "running"
              => C13_ClosedStep(p)]_vars
    /\ [](\A p \in Procs : C13_NothingOutlives(p))

C13_Witness ==
    \E p \in Procs :
        /\ pc[p] = "running"
        /\ mainWindow[p] = "destroyed"
        /\ overlay[p] = "destroyed"
        /\ obs.calls = << "destroy" >>

(***************************************************************************)
(* '@app/maximize' and '@app/minimize', checked under Spec.  The handlers  *)
(* are applied to every reachable window state under every setting of the  *)
(* window's capability flags.                                              *)
(***************************************************************************)
Capabilities ==
    [ maximizable : BOOLEAN, minimizable : BOOLEAN, fullScreenable : BOOLEAN ]
WithCapabilities(w, c) ==
    [ w EXCEPT !.maximizable = c.maximizable, !.minimizable = c.minimizable,
               !.fullScreenable = c.fullScreenable ]
AfterMessage(ch, w) == ipcHandler(ch, "open", w).w

C14_Toggle(w) ==
    LET once == AfterMessage("@app/maximize", w)
        twice == AfterMessage("@app/maximize", once)
    IN  /\ platform # "mac" =>
              IF w.maximizable
              THEN once.maximized = ~w.maximized /\ once.fullScreen = w.fullScreen
              ELSE once = w
        /\ platform = "mac" =>
              IF w.fullScreenable
              THEN once.fullScreen = ~w.fullScreen /\ once.maximized = w.maximized
              ELSE once = w
        /\ twice.maximized = w.maximized
        /\ twice.fullScreen = w.fullScreen

C14_Minimize(w) ==
    AfterMessage("@app/minimize", w) =
        (IF w.minimizable THEN [ w EXCEPT !.minimized = TRUE ] ELSE w)

(* C14: '@app/maximize' is a toggle guarded by capability.  Off Mac it     *)
(* flips the maximized state of a maximizable window and leaves any other  *)
(* window unchanged; on Mac it flips the full-screen state of a            *)
(* full-screenable window and leaves any other unchanged; two messages in  *)
(* a row restore the maximized and full-screen state.  '@app/minimize'     *)
(* minimizes a minimizable window and leaves any other unchanged.          *)
C14_MaximizeToggles ==
    \A p \in Procs :
        Alive(mainWindow[p]) =>
            \A c \in Capabilities :
                /\ C14_Toggle(WithCapabilities(win[p], c))
                /\ C14_Minimize(WithCapabilities(win[p], c))

C14_Witness ==
    \E p \in Procs :
        /\ mainWindow[p] = "open"
        /\ platform # "mac"
        /\ obs.calls = << "isMaximized", "unmaximize" >>
        /\ ~win[p].maximized

(***************************************************************************)
(* Use of the main window after it is destroyed, checked under Spec.       *)
(***************************************************************************)
(* C15: no handler calls a method of the main window after its 'closed'    *)
(* event has fired and it is destroyed: neither show() in the 800 ms       *)
(* callback nor close(), isMinimized(), restore() or focus() in the        *)
(* 'second-instance' handler is called on a destroyed window (such a call  *)
(* throws).                                                                *)
C15_NoUseAfterDestroy == ~obs.threw

(***************************************************************************)
(* Exit after the main window is closed, checked under FairSpec.           *)
(***************************************************************************)
MainWindowGone(p) == pc[p] = "running" /\ mainWindow[p] = "destroyed"
Exiting(p) == pc[p] # "running"

(* C16: whenever the main window has been closed, the application          *)
(* eventually exits: the splash is destroyed too, 'window-all-closed'      *)
(* fires and exitApp is called, also when the main window is closed        *)
(* before it was ever shown, with the poll interval still running.         *)
C16_ClosedLeadsToExit ==
    \A p \in Procs : MainWindowGone(p) ~> Exiting(p)

(***************************************************************************)
(* createMainWindow runs once, checked under Spec.                         *)
(***************************************************************************)
C17_Once(p) ==
    /\ created[p] <= 1
    /\ trays[p] <= 1
    /\ trays[p] = created[p]
    /\ mainWindow[p] # "null"
    /\ mainWindow[p] = "undefined" <=> created[p] = 0
    /\ boot[p] # "started" => created[p] = 0
    /\ \A ch \in Channels : ipcOn[p][ch] <= 1

(* C17: createMainWindow runs at most once per process lifetime, from      *)
(* skipUpdateCheck; the handle is never null, so the guard of 'activate'   *)
(* is never true and no step other than the one that runs skipUpdateCheck  *)
(* creates a main window.  So at most one main window and one tray exist   *)
(* per process and each IPC channel has at most one listener.              *)
C17_CreateMainWindowOnce ==
    /\ [](\A p \in Procs : C17_Once(p))
    /\ [][\A p \in Procs :
              created'[p] > created[p] => boot[p] = "localizing" /\ boot'[p] = "started"]_vars

C17_Witness ==
    \E p \in Procs :
        /\ platform = "mac"
        /\ pc[p] = "running"
        /\ mainWindow[p] = "destroyed"
        /\ created[p] = 1
        /\ trays[p] = 1
        /\ \A ch \in Channels : ipcOn[p][ch] = 1

(***************************************************************************)
(* preventDefault and openExternal go together, checked under SpecLinks.   *)
(***************************************************************************)
(* C18: for every 'new-window' or 'will-navigate' event and every URL the  *)
(* handler calls event.preventDefault() iff it calls shell.openExternal,   *)
(* each at most once, and what it opens is the event's URL: a link is      *)
(* never both loaded in-app and opened externally, and never blocked       *)
(* in-app without being opened externally.                                 *)
C18_PreventIffOpenExternal ==
    LinkHandled =>
        /\ obs.prevented <= 1
        /\ Len(obs.opened) <= 1
        /\ obs.prevented = 1 <=> Len(obs.opened) = 1
        /\ \A i \in DOMAIN obs.opened : obs.opened[i] = obs.url

C18_Witness ==
    /\ obs.event = "new-window"
    /\ obs.url = [ hostname |-> AllowedHostAt(3), pathname |-> "/" ]
    /\ obs.prevented = 1
    /\ Len(obs.opened) = 1

====
